---- MODULE Spec2Model ----
(***************************************************************************)
(* Bonk account decoders and parsers                                       *)
(* (src/streaming/event_parser/protocols/bonk/types.rs).                   *)
(*                                                                         *)
(* A byte buffer is a sequence of integers 0..255.  Rust offsets are       *)
(* 0-based and half-open, TLA+ sequences are 1-based: data[lo..hi] is      *)
(* SubSeq(data, lo + 1, hi).                                               *)
(***************************************************************************)
EXTENDS Integers, Sequences, FiniteSets, TLC

(***************************************************************************)
(* Bounds of the explored inputs.                                          *)
(***************************************************************************)
\* bytes a buffer is cut short by, relative to the length of its shape
MaxShort == 1
\* extra trailing bytes appended after the shape
MaxExtra == 1
\* largest tag byte tried in an enum position (0..2 are defined tags)
MaxTag == 3
\* largest number of PlatformCurveParam blocks after the fixed prefix
MaxParams == 1
\* largest length of a raw (shapeless) buffer
MaxRaw == 9
\* callers (snapshot fields and metadata) tried: 0..MaxCaller
MaxCaller == 1

(***************************************************************************)
(* Record layouts, as the BorshDeserialize derive sees them: the fields in *)
(* declaration order, each with its type.                                  *)
(***************************************************************************)
U8 == [k |-> "u8"]
U16 == [k |-> "u16"]
U64 == [k |-> "bytes", n |-> 8]
Pubkey == [k |-> "bytes", n |-> 32]
U8Array(n) == [k |-> "bytes", n |-> n]
U64Array(n) == [k |-> "bytes", n |-> 8 * n]
Struct(fields) == [k |-> "struct", fields |-> fields]
Enum(variants) == [k |-> "enum", variants |-> variants]
Vec(elem) == [k |-> "vec", elem |-> elem]

TradeDirection == Enum(<<"Buy", "Sell">>)

PoolStatus == Enum(<<"Fund", "Migrate", "Trade">>)

AmmCreatorFeeOn == Enum(<<"QuoteToken", "BothToken">>)

VestingSchedule ==
  Struct(<< <<"total_locked_amount", U64>>,
            <<"cliff_period", U64>>,
            <<"unlock_period", U64>>,
            <<"start_time", U64>>,
            <<"allocated_share_amount", U64>> >>)

PoolState ==
  Struct(<< <<"epoch", U64>>,
            <<"auth_bump", U8>>,
            <<"status", U8>>,
            <<"base_decimals", U8>>,
            <<"quote_decimals", U8>>,
            <<"migrate_type", U8>>,
            <<"supply", U64>>,
            <<"total_base_sell", U64>>,
            <<"virtual_base", U64>>,
            <<"virtual_quote", U64>>,
            <<"real_base", U64>>,
            <<"real_quote", U64>>,
            <<"total_quote_fund_raising", U64>>,
            <<"quote_protocol_fee", U64>>,
            <<"platform_fee", U64>>,
            <<"migrate_fee", U64>>,
            <<"vesting_schedule", VestingSchedule>>,
            <<"global_config", Pubkey>>,
            <<"platform_config", Pubkey>>,
            <<"base_mint", Pubkey>>,
            <<"quote_mint", Pubkey>>,
            <<"base_vault", Pubkey>>,
            <<"quote_vault", Pubkey>>,
            <<"creator", Pubkey>>,
            <<"token_program_flag", U8>>,
            <<"amm_creator_fee_on", AmmCreatorFeeOn>>,
            <<"platform_vesting_share", U64>>,
            <<"padding", U8Array(54)>> >>)

GlobalConfig ==
  Struct(<< <<"epoch", U64>>,
            <<"curve_type", U8>>,
            <<"index", U16>>,
            <<"migrate_fee", U64>>,
            <<"trade_fee_rate", U64>>,
            <<"max_share_fee_rate", U64>>,
            <<"min_base_supply", U64>>,
            <<"max_lock_rate", U64>>,
            <<"min_base_sell_rate", U64>>,
            <<"min_base_migrate_rate", U64>>,
            <<"min_quote_fund_raising", U64>>,
            <<"quote_mint", Pubkey>>,
            <<"protocol_fee_owner", Pubkey>>,
            <<"migrate_fee_owner", Pubkey>>,
            <<"migrate_to_amm_wallet", Pubkey>>,
            <<"migrate_to_cpswap_wallet", Pubkey>>,
            <<"padding", U64Array(16)>> >>)

BondingCurveParam ==
  Struct(<< <<"migrate_type", U8>>,
            <<"migrate_cpmm_fee_on", U8>>,
            <<"supply", U64>>,
            <<"total_base_sell", U64>>,
            <<"total_quote_fund_raising", U64>>,
            <<"total_locked_amount", U64>>,
            <<"cliff_period", U64>>,
            <<"unlock_period", U64>> >>)

PlatformCurveParam ==
  Struct(<< <<"epoch", U64>>,
            <<"index", U8>>,
            <<"global_config", Pubkey>>,
            <<"bonding_curve_param", BondingCurveParam>>,
            <<"padding", U64Array(50)>> >>)

\* the fields of PlatformConfig before curve_params
PlatformConfigFixed ==
  << <<"epoch", U64>>,
     <<"platform_fee_wallet", Pubkey>>,
     <<"platform_nft_wallet", Pubkey>>,
     <<"platform_scale", U64>>,
     <<"creator_scale", U64>>,
     <<"burn_scale", U64>>,
     <<"fee_rate", U64>>,
     <<"name", U8Array(64)>>,
     <<"web", U8Array(256)>>,
     <<"img", U8Array(256)>>,
     <<"cpswap_config", Pubkey>>,
     <<"creator_fee_rate", U64>>,
     <<"transfer_fee_extension_auth", Pubkey>>,
     <<"platform_vesting_wallet", Pubkey>>,
     <<"platform_vesting_scale", U64>>,
     <<"platform_cp_creator", Pubkey>>,
     <<"padding", U8Array(108)>> >>

PlatformConfig ==
  Struct(PlatformConfigFixed \o << <<"curve_params", Vec(PlatformCurveParam)>> >>)

POOL_STATE_SIZE == 8 + 1 * 5 + 8 * 10 + 32 * 7 + 8 * 8 + 8 * 5 + 1 + 1 + 8 + 54

GLOBAL_CONFIG_SIZE == 8 + 1 + 2 + 8 * 8 + 32 * 5 + 8 * 16

PLATFORM_CONFIG_SIZE == 8 + 32 * 2 + 8 * 4 + 64 + 256 + 256 + 32 + 8 + 32 + 32 + 8 + 32 + 108

(***************************************************************************)
(* The serialized size of a fixed-layout type under the binary encoding:   *)
(* the sum of the widths of its fields, an enum being its one tag byte.    *)
(***************************************************************************)
RECURSIVE SerializedSize(_)
RECURSIVE SerializedSizeOfFields(_, _)
SerializedSize(T) ==
  CASE T.k = "u8" -> 1
    [] T.k = "u16" -> 2
    [] T.k = "bytes" -> T.n
    [] T.k = "enum" -> 1
    [] T.k = "struct" -> SerializedSizeOfFields(T.fields, 1)

SerializedSizeOfFields(fields, i) ==
  IF i > Len(fields) THEN 0
  ELSE SerializedSize(fields[i][2]) + SerializedSizeOfFields(fields, i + 1)

(***************************************************************************)
(* The decoding primitive.  A read at offset off (0-based) of buffer buf   *)
(* yields Ok(value, next offset) or Err(kind); the first failing field     *)
(* fails the whole read.  Integers are little-endian and fixed-width; a    *)
(* u64, a Pubkey and an array are kept as their bytes in wire order, an    *)
(* enum is one tag byte mapped to the variant of that index (the explicit  *)
(* discriminants of AmmCreatorFeeOn are its indices), a Vec is a u32       *)
(* element count followed by the elements.                                 *)
(***************************************************************************)
Ok(v, off) == [ok |-> TRUE, val |-> v, off |-> off]
Err(e) == [ok |-> FALSE, err |-> e]

\* the u32 element count of a Vec, little-endian
U32LE(buf, off) ==
  buf[off + 1] + 256 * buf[off + 2] + 65536 * buf[off + 3] + 16777216 * buf[off + 4]

RECURSIVE Read(_, _, _)
RECURSIVE ReadFields(_, _, _, _, _)
RECURSIVE ReadElems(_, _, _, _, _)
Read(T, buf, off) ==
  CASE T.k = "u8" ->
         IF off + 1 <= Len(buf) THEN Ok(buf[off + 1], off + 1)
         ELSE Err("UnexpectedEof")
    [] T.k = "u16" ->
         IF off + 2 <= Len(buf) THEN Ok(buf[off + 1] + 256 * buf[off + 2], off + 2)
         ELSE Err("UnexpectedEof")
    [] T.k = "bytes" ->
         IF off + T.n <= Len(buf) THEN Ok(SubSeq(buf, off + 1, off + T.n), off + T.n)
         ELSE Err("UnexpectedEof")
    [] T.k = "enum" ->
         IF off + 1 > Len(buf) THEN Err("UnexpectedEof")
         ELSE IF buf[off + 1] < Len(T.variants)
              THEN Ok(T.variants[buf[off + 1] + 1], off + 1)
              ELSE Err("UnexpectedVariantTag")
    [] T.k = "struct" -> ReadFields(T.fields, 1, buf, off, <<>>)
    [] T.k = "vec" ->
         IF off + 4 > Len(buf) THEN Err("UnexpectedEof")
         ELSE ReadElems(T.elem, U32LE(buf, off), buf, off + 4, <<>>)

ReadFields(fields, i, buf, off, acc) ==
  IF i > Len(fields) THEN Ok(acc, off)
  ELSE LET r == Read(fields[i][2], buf, off)
       IN IF r.ok
          THEN ReadFields(fields, i + 1, buf, r.off, Append(acc, <<fields[i][1], r.val>>))
          ELSE r

ReadElems(T, n, buf, off, acc) ==
  IF n = 0 THEN Ok(acc, off)
  ELSE LET r == Read(T, buf, off)
       IN IF r.ok THEN ReadElems(T, n - 1, buf, r.off, Append(acc, r.val))
          ELSE r

\* borsh::from_slice: the value, provided the read consumed the whole slice
from_slice(T, v) ==
  LET r == Read(T, v, 0)
  IN IF ~r.ok THEN r
     ELSE IF r.off # Len(v) THEN Err("NotAllBytesRead")
     ELSE r

(***************************************************************************)
(* Outcomes.  An Option is None or Some(v); an out-of-range slice is a     *)
(* panic, kept apart from both.                                            *)
(***************************************************************************)
None == [tag |-> "None"]
Some(v) == [tag |-> "Some", val |-> v]
Panic == [tag |-> "Panic"]

\* Result::ok(): the error, whatever it was, becomes None
to_option(r) == IF r.ok THEN Some(r.val) ELSE None

\* &s[lo..hi]
Slice(s, lo, hi) ==
  IF lo <= hi /\ hi <= Len(s) THEN [ok |-> TRUE, bytes |-> SubSeq(s, lo + 1, hi)]
  ELSE [ok |-> FALSE]

pool_state_decode(d) ==
  IF Len(d) < POOL_STATE_SIZE THEN None
  ELSE LET w == Slice(d, 0, POOL_STATE_SIZE)
       IN IF w.ok THEN to_option(from_slice(PoolState, w.bytes)) ELSE Panic

\* global_config_decode without the length gate
global_config_decode_no_gate(d) ==
  LET w == Slice(d, 0, GLOBAL_CONFIG_SIZE)
  IN IF w.ok THEN to_option(from_slice(GlobalConfig, w.bytes)) ELSE Panic

\* global_config_decode handing the whole buffer to from_slice
global_config_decode_whole(d) ==
  IF Len(d) < GLOBAL_CONFIG_SIZE THEN None
  ELSE to_option(from_slice(GlobalConfig, d))

global_config_decode(d) ==
  IF Len(d) < GLOBAL_CONFIG_SIZE THEN None
  ELSE LET w == Slice(d, 0, GLOBAL_CONFIG_SIZE)
       IN IF w.ok THEN to_option(from_slice(GlobalConfig, w.bytes)) ELSE Panic

platform_config_decode(d) ==
  IF Len(d) < PLATFORM_CONFIG_SIZE THEN None
  ELSE LET w == Slice(d, 0, PLATFORM_CONFIG_SIZE)
       IN IF w.ok THEN to_option(from_slice(PlatformConfig, w.bytes)) ELSE Panic

pool_state_parser(account, md) ==
  LET stamped == [md EXCEPT !.event_type = "AccountBonkPoolState"]
  IN IF Len(account.data) < POOL_STATE_SIZE + 8 THEN None
     ELSE LET w == Slice(account.data, 8, POOL_STATE_SIZE + 8)
          IN IF ~w.ok THEN Panic
             ELSE LET r == pool_state_decode(w.bytes)
                  IN IF r.tag = "Some"
                     THEN Some([variant |-> "BonkPoolStateAccountEvent",
                                metadata |-> stamped,
                                pubkey |-> account.pubkey,
                                executable |-> account.executable,
                                lamports |-> account.lamports,
                                owner |-> account.owner,
                                rent_epoch |-> account.rent_epoch,
                                pool_state |-> r.val])
                     ELSE r

\* global_config_parser gating on the record size without the 8 skipped bytes
global_config_parser_short_gate(account, md) ==
  LET stamped == [md EXCEPT !.event_type = "AccountBonkGlobalConfig"]
  IN IF Len(account.data) < GLOBAL_CONFIG_SIZE THEN None
     ELSE LET w == Slice(account.data, 8, GLOBAL_CONFIG_SIZE + 8)
          IN IF ~w.ok THEN Panic
             ELSE LET r == global_config_decode(w.bytes)
                  IN IF r.tag = "Some"
                     THEN Some([variant |-> "BonkGlobalConfigAccountEvent",
                                metadata |-> stamped,
                                pubkey |-> account.pubkey,
                                executable |-> account.executable,
                                lamports |-> account.lamports,
                                owner |-> account.owner,
                                rent_epoch |-> account.rent_epoch,
                                global_config |-> r.val])
                     ELSE r

\* global_config_parser passing the caller's metadata on unstamped
global_config_parser_unstamped(account, md) ==
  IF Len(account.data) < GLOBAL_CONFIG_SIZE + 8 THEN None
  ELSE LET w == Slice(account.data, 8, GLOBAL_CONFIG_SIZE + 8)
       IN IF ~w.ok THEN Panic
          ELSE LET r == global_config_decode(w.bytes)
               IN IF r.tag = "Some"
                  THEN Some([variant |-> "BonkGlobalConfigAccountEvent",
                             metadata |-> md,
                             pubkey |-> account.pubkey,
                             executable |-> account.executable,
                             lamports |-> account.lamports,
                             owner |-> account.owner,
                             rent_epoch |-> account.rent_epoch,
                             global_config |-> r.val])
                  ELSE r

\* global_config_parser decoding from offset 0, the discriminator included
global_config_parser_from_zero(account, md) ==
  LET stamped == [md EXCEPT !.event_type = "AccountBonkGlobalConfig"]
  IN IF Len(account.data) < GLOBAL_CONFIG_SIZE + 8 THEN None
     ELSE LET w == Slice(account.data, 0, GLOBAL_CONFIG_SIZE)
          IN IF ~w.ok THEN Panic
             ELSE LET r == global_config_decode(w.bytes)
                  IN IF r.tag = "Some"
                     THEN Some([variant |-> "BonkGlobalConfigAccountEvent",
                                metadata |-> stamped,
                                pubkey |-> account.pubkey,
                                executable |-> account.executable,
                                lamports |-> account.lamports,
                                owner |-> account.owner,
                                rent_epoch |-> account.rent_epoch,
                                global_config |-> r.val])
                     ELSE r

global_config_parser(account, md) ==
  LET stamped == [md EXCEPT !.event_type = "AccountBonkGlobalConfig"]
  IN IF Len(account.data) < GLOBAL_CONFIG_SIZE + 8 THEN None
     ELSE LET w == Slice(account.data, 8, GLOBAL_CONFIG_SIZE + 8)
          IN IF ~w.ok THEN Panic
             ELSE LET r == global_config_decode(w.bytes)
                  IN IF r.tag = "Some"
                     THEN Some([variant |-> "BonkGlobalConfigAccountEvent",
                                metadata |-> stamped,
                                pubkey |-> account.pubkey,
                                executable |-> account.executable,
                                lamports |-> account.lamports,
                                owner |-> account.owner,
                                rent_epoch |-> account.rent_epoch,
                                global_config |-> r.val])
                     ELSE r

platform_config_parser(account, md) ==
  LET stamped == [md EXCEPT !.event_type = "AccountBonkPlatformConfig"]
  IN IF Len(account.data) < PLATFORM_CONFIG_SIZE + 8 THEN None
     ELSE LET w == Slice(account.data, 8, PLATFORM_CONFIG_SIZE + 8)
          IN IF ~w.ok THEN Panic
             ELSE LET r == platform_config_decode(w.bytes)
                  IN IF r.tag = "Some"
                     THEN Some([variant |-> "BonkPlatformConfigAccountEvent",
                                metadata |-> stamped,
                                pubkey |-> account.pubkey,
                                executable |-> account.executable,
                                lamports |-> account.lamports,
                                owner |-> account.owner,
                                rent_epoch |-> account.rent_epoch,
                                platform_config |-> r.val])
                     ELSE r

\* T::deserialize(&mut &data[..]): the derived reader, from the start of the
\* buffer, with the number of bytes it consumed
deserialize(T, d) ==
  LET r == Read(T, d, 0)
  IN IF r.ok THEN [tag |-> "Ok", val |-> r.val, consumed |-> r.off]
     ELSE [tag |-> "Err", err |-> r.err]

(***************************************************************************)
(* Inputs.  The buffers tried are built from the layouts: an encoding of   *)
(* one record kind (or a shapeless run of bytes), cut short or extended,   *)
(* with or without the 8-byte discriminator region in front.               *)
(***************************************************************************)
Fills == 0..1
Tags == 0..MaxTag
Deltas == (0 - MaxShort)..MaxExtra
\* the value of the bytes appended after a shape:
\* a byte that is neither a fill nor a tag tried
ExtByte == MaxTag + 1

Fill(n, b) == [i \in 1..n |-> b]

RECURSIVE FieldOffset(_, _, _)
\* 0-based offset of the named field in a fixed layout
FieldOffset(fields, name, i) ==
  IF fields[i][1] = name THEN 0
  ELSE SerializedSize(fields[i][2]) + FieldOffset(fields, name, i + 1)

StatusOffset == FieldOffset(PoolState.fields, "status", 1)
AmmCreatorFeeOnOffset == FieldOffset(PoolState.fields, "amm_creator_fee_on", 1)

\* an encoding of PoolState (every field present, in order), padded with pad
\* further bytes
PoolBytes(f, status, amm, pad) ==
  [i \in 1..(SerializedSize(PoolState) + pad) |->
     IF i = StatusOffset + 1 THEN status
     ELSE IF i = AmmCreatorFeeOnOffset + 1 THEN amm
     ELSE f]

\* the fixed prefix of PlatformConfig followed by n blocks of the size of a
\* PlatformCurveParam, with (counted) or without the u32 element count
PlatformBytes(f, n, counted) ==
  Fill(SerializedSizeOfFields(PlatformConfigFixed, 1), f)
    \o (IF counted THEN <<n, 0, 0, 0>> ELSE <<>>)
    \o Fill(n * SerializedSize(PlatformCurveParam), f)

Bodies ==
  {PoolBytes(f, s, a, pad) : f \in Fills, s \in Tags, a \in Tags,
                             pad \in {0, POOL_STATE_SIZE - SerializedSize(PoolState)}}
  \cup {Fill(SerializedSize(GlobalConfig), f) : f \in Fills}
  \cup {PlatformBytes(f, n, c) : f \in Fills, n \in 0..MaxParams, c \in BOOLEAN}
  \cup {Fill(n, t) : n \in 0..MaxRaw, t \in Tags}

Cut(body, delta) ==
  IF delta >= 0 THEN body \o Fill(delta, ExtByte)
  ELSE IF Len(body) + delta >= 0 THEN SubSeq(body, 1, Len(body) + delta)
  ELSE <<>>

Inputs ==
  {Cut(b, delta) : b \in Bodies, delta \in Deltas}
  \cup {Fill(8, d) \o Cut(b, delta) : d \in Fills, b \in Bodies, delta \in Deltas}

EventTypes ==
  <<"BonkBuyExactIn", "AccountBonkPoolState", "AccountBonkGlobalConfig",
    "AccountBonkPlatformConfig">>

\* the snapshot and the metadata of caller c: every field a different value
AccountPretty(c, bytes) ==
  [pubkey |-> 100 + c, executable |-> (c % 2 = 1), lamports |-> 200 + c,
   owner |-> 300 + c, rent_epoch |-> 400 + c, data |-> bytes]

EventMetadata(c) ==
  [event_type |-> EventTypes[(c % Len(EventTypes)) + 1], correlation |-> 500 + c]

(***************************************************************************)
(* State: the snapshot and metadata a caller holds, the operation it has   *)
(* called and what the operation returned.                                 *)
(***************************************************************************)
VARIABLES account, metadata, op, result

vars == <<account, metadata, op, result>>

data == account.data

Init ==
  /\ \E c \in 0..MaxCaller, bytes \in Inputs :
       /\ account = AccountPretty(c, bytes)
       /\ metadata = EventMetadata(c)
  /\ op = "idle"
  /\ result = None

Call(name, value) ==
  /\ op = "idle"
  /\ op' = name
  /\ result' = value
  /\ UNCHANGED <<account, metadata>>

PoolStateDecode == Call("pool_state_decode", pool_state_decode(data))
GlobalConfigDecode == Call("global_config_decode", global_config_decode(data))
PlatformConfigDecode == Call("platform_config_decode", platform_config_decode(data))
PoolStateParser == Call("pool_state_parser", pool_state_parser(account, metadata))
GlobalConfigParser == Call("global_config_parser", global_config_parser(account, metadata))
PlatformConfigParser == Call("platform_config_parser", platform_config_parser(account, metadata))
TradeDirectionDeserialize == Call("TradeDirection::deserialize", deserialize(TradeDirection, data))
PoolStatusDeserialize == Call("PoolStatus::deserialize", deserialize(PoolStatus, data))
AmmCreatorFeeOnDeserialize == Call("AmmCreatorFeeOn::deserialize", deserialize(AmmCreatorFeeOn, data))
PoolStateDeserialize == Call("PoolState::deserialize", deserialize(PoolState, data))
GlobalConfigDeserialize == Call("GlobalConfig::deserialize", deserialize(GlobalConfig, data))
PlatformConfigDeserialize == Call("PlatformConfig::deserialize", deserialize(PlatformConfig, data))

Next ==
  \/ PoolStateDecode
  \/ GlobalConfigDecode
  \/ PlatformConfigDecode
  \/ PoolStateParser
  \/ GlobalConfigParser
  \/ PlatformConfigParser
  \/ TradeDirectionDeserialize
  \/ PoolStatusDeserialize
  \/ AmmCreatorFeeOnDeserialize
  \/ PoolStateDeserialize
  \/ GlobalConfigDeserialize
  \/ PlatformConfigDeserialize

Spec == Init /\ [][Next]_vars

(***************************************************************************)
(* The operations by record kind.                                          *)
(***************************************************************************)
Kinds == {"pool_state", "global_config", "platform_config"}

SizeOf(kind) ==
  CASE kind = "pool_state" -> POOL_STATE_SIZE
    [] kind = "global_config" -> GLOBAL_CONFIG_SIZE
    [] kind = "platform_config" -> PLATFORM_CONFIG_SIZE

DecodeOp(kind) == kind \o "_decode"
ParserOp(kind) == kind \o "_parser"

Decode(kind, d) ==
  CASE kind = "pool_state" -> pool_state_decode(d)
    [] kind = "global_config" -> global_config_decode(d)
    [] kind = "platform_config" -> platform_config_decode(d)

Parser(kind, a, md) ==
  CASE kind = "pool_state" -> pool_state_parser(a, md)
    [] kind = "global_config" -> global_config_parser(a, md)
    [] kind = "platform_config" -> platform_config_parser(a, md)

\* the layout whose width the kind's size constant stands for
FixedLayout(kind) ==
  CASE kind = "pool_state" -> PoolState
    [] kind = "global_config" -> GlobalConfig
    [] kind = "platform_config" -> Struct(PlatformConfigFixed)

CurveParamSize == SerializedSize(PlatformCurveParam)

\* w starts with an encoding of the record of the kind that every field
\* decodes from; for platform_config, the fixed prefix followed by whole
\* PlatformCurveParam blocks only
ValidEncoding(kind, w) ==
  /\ Read(FixedLayout(kind), w, 0).ok
  /\ kind = "platform_config" =>
       (Len(w) - PLATFORM_CONFIG_SIZE) % CurveParamSize = 0

VariantOf(kind) ==
  CASE kind = "pool_state" -> "BonkPoolStateAccountEvent"
    [] kind = "global_config" -> "BonkGlobalConfigAccountEvent"
    [] kind = "platform_config" -> "BonkPlatformConfigAccountEvent"

EventTypeOf(kind) ==
  CASE kind = "pool_state" -> "AccountBonkPoolState"
    [] kind = "global_config" -> "AccountBonkGlobalConfig"
    [] kind = "platform_config" -> "AccountBonkPlatformConfig"

\* the value of the named field of a decoded struct
Field(val, name) == val[CHOOSE i \in 1..Len(val) : val[i][1] = name][2]

\* the buffer with every byte of the discriminator region [0, 8) set to d
WithDiscriminator(bytes, d) ==
  [i \in 1..Len(bytes) |-> IF i <= 8 THEN d ELSE bytes[i]]

AltDiscriminators == Fills \cup {ExtByte}

(***************************************************************************)
(* Properties.                                                             *)
(***************************************************************************)

\* C1: for each record kind, a decode of a buffer whose length is at or above
\* the kind's size constant and which starts with an otherwise-valid encoding
\* of the record returns a record.
C1_DecodeSucceedsAtOrAboveSize ==
  \A k \in Kinds :
    (op = DecodeOp(k) /\ Len(data) >= SizeOf(k) /\ ValidEncoding(k, data))
      => result.tag = "Some"

\* C2: each size constant equals the serialized size of its record (for
\* PlatformConfig, of the fields before curve_params): the sum of the field
\* widths, which is also the number of bytes the derived reader consumes.
C2_SizeConstantsExact ==
  /\ \A k \in Kinds :
       op \in {DecodeOp(k), ParserOp(k)} => SizeOf(k) = SerializedSize(FixedLayout(k))
  /\ (op = "PoolState::deserialize" /\ result.tag = "Ok")
       => result.consumed = POOL_STATE_SIZE
  /\ (op = "GlobalConfig::deserialize" /\ result.tag = "Ok")
       => result.consumed = GLOBAL_CONFIG_SIZE

\* C3: platform_config_decode of a buffer with a valid fixed prefix returns no
\* value when the bytes after the prefix are not a whole number of
\* PlatformCurveParam blocks, and otherwise a PlatformConfig whose curve_params
\* are exactly those blocks, in order (none when the buffer is the prefix alone).
C3_VariadicExactness ==
  (/\ op = "platform_config_decode"
   /\ Len(data) >= PLATFORM_CONFIG_SIZE
   /\ Read(Struct(PlatformConfigFixed), data, 0).ok)
  => LET rest == Len(data) - PLATFORM_CONFIG_SIZE
     IN IF rest % CurveParamSize # 0 THEN result = None
        ELSE /\ result.tag = "Some"
             /\ LET params == Field(result.val, "curve_params")
                IN /\ Len(params) = rest \div CurveParamSize
                   /\ \A i \in 1..Len(params) :
                        params[i] = Read(PlatformCurveParam, data,
                                         PLATFORM_CONFIG_SIZE + (i - 1) * CurveParamSize).val

\* C4: a parser given exactly size + 8 bytes whose bytes [8, size + 8) are a
\* valid encoding returns an event; given size + 7 bytes or fewer it returns
\* no value.
C4_DiscriminatorSkipBoundary ==
  \A k \in Kinds :
    op = ParserOp(k) =>
      /\ (Len(data) = SizeOf(k) + 8 /\ ValidEncoding(k, SubSeq(data, 9, SizeOf(k) + 8)))
           => result.tag = "Some"
      /\ Len(data) <= SizeOf(k) + 7 => result = None

\* C5: whatever the bytes and the length of the input, every decode and every
\* parser returns a value or no value; no slice it takes is out of bounds.
C5_NeverFaults ==
  \A k \in Kinds :
    op \in {DecodeOp(k), ParserOp(k)} => result.tag \in {"Some", "None"}

C5_Witness ==
  \E k \in Kinds : /\ op = ParserOp(k)
                   /\ Len(data) < 8
                   /\ result = None

\* C6: a decode of a buffer strictly shorter than the kind's size constant
\* returns no value, whatever the bytes.
C6_LengthGate ==
  \A k \in Kinds :
    (op = DecodeOp(k) /\ Len(data) < SizeOf(k)) => result = None

C6_Witness ==
  /\ op = "global_config_decode"
  /\ Len(data) = GLOBAL_CONFIG_SIZE - 1
  /\ result = None

\* C7: an event a parser returns is the variant of the parser's kind, carries
\* the caller's metadata with only event_type set to the kind's tag, and
\* echoes pubkey, executable, lamports, owner and rent_epoch of the snapshot.
C7_EventEchoesSnapshot ==
  \A k \in Kinds :
    (op = ParserOp(k) /\ result.tag = "Some") =>
      /\ result.val.variant = VariantOf(k)
      /\ result.val.metadata = [metadata EXCEPT !.event_type = EventTypeOf(k)]
      /\ result.val.pubkey = account.pubkey
      /\ result.val.executable = account.executable
      /\ result.val.lamports = account.lamports
      /\ result.val.owner = account.owner
      /\ result.val.rent_epoch = account.rent_epoch

C7_Witness ==
  /\ op = "global_config_parser"
  /\ result.tag = "Some"
  /\ metadata.event_type # "AccountBonkGlobalConfig"

\* C8: every defined tag of AmmCreatorFeeOn (0, 1), PoolStatus (0, 1, 2) and
\* TradeDirection (0, 1) decodes to its variant and any other byte fails; a
\* byte that is no defined tag in PoolState's amm_creator_fee_on or status
\* fails the read of the field and with it the decode of the record.
C8_TagExhaustiveness ==
  /\ (op = "AmmCreatorFeeOn::deserialize" /\ Len(data) >= 1) =>
       CASE data[1] = 0 -> result.tag = "Ok" /\ result.val = "QuoteToken"
         [] data[1] = 1 -> result.tag = "Ok" /\ result.val = "BothToken"
         [] OTHER -> result.tag = "Err"
  /\ (op = "PoolStatus::deserialize" /\ Len(data) >= 1) =>
       CASE data[1] = 0 -> result.tag = "Ok" /\ result.val = "Fund"
         [] data[1] = 1 -> result.tag = "Ok" /\ result.val = "Migrate"
         [] data[1] = 2 -> result.tag = "Ok" /\ result.val = "Trade"
         [] OTHER -> result.tag = "Err"
  /\ (op = "TradeDirection::deserialize" /\ Len(data) >= 1) =>
       CASE data[1] = 0 -> result.tag = "Ok" /\ result.val = "Buy"
         [] data[1] = 1 -> result.tag = "Ok" /\ result.val = "Sell"
         [] OTHER -> result.tag = "Err"
  /\ (/\ Len(data) >= SerializedSize(PoolState)
      /\ \/ data[AmmCreatorFeeOnOffset + 1] \notin {0, 1}
         \/ data[StatusOffset + 1] \notin {0, 1, 2})
     => /\ op = "PoolState::deserialize" => result.tag = "Err"
        /\ op = "pool_state_decode" => result = None

\* C9: for pool_state_decode and global_config_decode, the decode of a buffer
\* at or above the fixed size is the decode of its first fixed-size bytes.
C9_WindowedDecode ==
  \A k \in {"pool_state", "global_config"} :
    (op = DecodeOp(k) /\ Len(data) >= SizeOf(k))
      => result = Decode(k, SubSeq(data, 1, SizeOf(k)))

C9_Witness ==
  /\ op = "global_config_decode"
  /\ Len(data) > GLOBAL_CONFIG_SIZE
  /\ result.tag = "Some"

\* C10: a parser's outcome does not depend on the bytes [0, 8): the same
\* snapshot and metadata with any other discriminator bytes give the same
\* outcome.
C10_DiscriminatorIgnored ==
  \A k \in Kinds :
    op = ParserOp(k) =>
      \A d \in AltDiscriminators :
        Parser(k, [account EXCEPT !.data = WithDiscriminator(data, d)], metadata) = result

C10_Witness ==
  /\ op = "global_config_parser"
  /\ result.tag = "Some"
  /\ data[1] # 0
====
